---------------------------- MODULE Spec2Model ----------------------------
(***************************************************************************)
(* A model of andbug/process.py: the JDWP Process (packet processor).      *)
(*                                                                         *)
(* One thread calls start() (handshake, id-size negotiation, Thread.start),*)
(* any number of caller threads call writeContent() on the same Process,   *)
(* and the Process thread itself executes run().  The transport is the     *)
(* pair of functions handed to __init__: every call of write appends one   *)
(* chunk to `wire`, every call of read returns bytes chosen by the peer.   *)
(* Caller threads are interleaved between the attribute reads and writes   *)
(* of writeContent / writeHeader, because the source takes no lock.        *)
(***************************************************************************)
EXTENDS Integers, Sequences, FiniteSets, TLC

(* ------------------------------ bounds -------------------------------- *)

NumCallers == 2
MaxSends == 2
MaxStarts == 2
NumInstances == 3
MaxInstSends == 4
MaxInbound == 2

Callers == 1..NumCallers

(* ------------------------- module constants --------------------------- *)

\* 'JDWP-Handshake' as ASCII codes
HANDSHAKE_MSG == <<74, 68, 87, 80, 45, 72, 97, 110, 100, 115, 104, 97, 107, 101>>

\* length 11, identifier 1, flags 0, command 1:7
IDSZ_REQ == <<0, 0, 0, 11, 0, 0, 0, 1, 0, 1, 7>>

HEADER_SIZE == 11
IDSZ_BODY_SIZE == 20
REPLY_FLAG == 128
INITIAL_ID == 3
ID_STEP == 2
BOOTSTRAP_ID == 1

\* the names bound at module level of process.py, plus the builtin the
\* exception classes derive from
ModuleNames ==
    {"Thread", "JdwpBuffer", "Exception", "HandshakeError", "ProtocolError",
     "HANDSHAKE_MSG", "HEADER_FORMAT", "IDSZ_REQ", "Process", "Element",
     "Content", "Response", "Failure", "Success", "Request", "Event"}

NoExc == [type |-> "none", msg |-> ""]

\* raise HandshakeError(): the constructor calls Error.__init__, and the
\* name Error is looked up when the constructor runs
HandshakeError ==
    IF "Error" \in ModuleNames
    THEN [type |-> "HandshakeError",
          msg |-> "handshake error, received message did not match"]
    ELSE [type |-> "NameError", msg |-> "name 'Error' is not defined"]

\* what the write function the owner supplied raises once the transport it
\* writes to has been closed; nothing in the module catches or converts it
TransportError == [type |-> "TransportError", msg |-> "transport closed"]

ProtocolError(m) == [type |-> "ProtocolError", msg |-> m]

(* ------------------------------ codec --------------------------------- *)

Be2(n) == <<(n \div 256) % 256, n % 256>>
Be4(n) == <<(n \div 16777216) % 256, (n \div 65536) % 256,
            (n \div 256) % 256, n % 256>>
Un2(b, i) == b[i] * 256 + b[i + 1]
Un4(b, i) == ((b[i] * 256 + b[i + 1]) * 256 + b[i + 2]) * 256 + b[i + 3]

\* JdwpBuffer.pack('4412', size, ident, flags, event)
PackHeader(size, ident, flags, event) ==
    Be4(size) \o Be4(ident) \o <<flags % 256>> \o Be2(event)

\* JdwpBuffer.unpack('4412', head)
UnpackHeader(b) == <<Un4(b, 1), Un4(b, 5), b[9], Un2(b, 10)>>

\* JdwpBuffer.unpack('iiiii', body)
UnpackSizes(b) == <<Un4(b, 1), Un4(b, 5), Un4(b, 9), Un4(b, 13), Un4(b, 17)>>

PackSizes(s) == Be4(s[1]) \o Be4(s[2]) \o Be4(s[3]) \o Be4(s[4]) \o Be4(s[5])

\* readHeader without data[0] -= 11
readHeader_KeepSize(b) == UnpackHeader(b)

\* readHeader: [size, id, flags, event] with the header size taken off
readHeader(b) == [UnpackHeader(b) EXCEPT ![1] = @ - HEADER_SIZE]

\* writeHeader without size += 11
writeHeaderData_NoAdd(size, ident, flags, event) ==
    PackHeader(size, ident, flags, event)

\* writeHeader: size += 11; data = self.xmitbuf.pack(HEADER_FORMAT, ...)
writeHeaderData(size, ident, flags, event) ==
    PackHeader(size + HEADER_SIZE, ident, flags, event)

(* ------------------------ what the peer may send ---------------------- *)

\* echoes of the handshake: exact, one byte changed (last, first), truncated
HandshakeEchoes ==
    {HANDSHAKE_MSG,
     [HANDSHAKE_MSG EXCEPT ![14] = 102],
     [HANDSHAKE_MSG EXCEPT ![1] = 106],
     SubSeq(HANDSHAKE_MSG, 1, 13)}

\* headers of the first server message
BootstrapHeaders ==
    {PackHeader(l, i, f, 0) : l \in {31, 11}, i \in {1, 3}, f \in {128, 0, 129}}

\* bodies of the id-size reply
BootstrapBodies ==
    {PackSizes(<<4, 8, 8, 8, 4>>), PackSizes(<<8, 4, 4, 2, 256>>)}

(* ------------------------------ content ------------------------------- *)

\* the class each content class extends; Content, Response, Failure, Success,
\* Request and Event are the module's, the three Client classes are classes
\* a user of the module derives to give a command, an event or an error its CODE
Bases ==
    [Content |-> "", Response |-> "Content", Failure |-> "Response",
     Success |-> "Response", Request |-> "Content", Event |-> "Request",
     ClientRequest |-> "Request", ClientEvent |-> "Event",
     ClientFailure |-> "Failure"]

\* the class attributes with Response.FLAGS left at 0
ClassDict_ResponseFlagsClear ==
    [Content |-> <<>>, Response |-> [FLAGS |-> 0], Failure |-> <<>>,
     Success |-> [CODE |-> 0], Request |-> [FLAGS |-> 0], Event |-> <<>>,
     ClientRequest |-> [CODE |-> 257], ClientEvent |-> [CODE |-> 16484],
     ClientFailure |-> [CODE |-> 20]]

\* the attributes each class body assigns
ClassDict ==
    [Content |-> <<>>, Response |-> [FLAGS |-> 128], Failure |-> <<>>,
     Success |-> [CODE |-> 0], Request |-> [FLAGS |-> 0], Event |-> <<>>,
     ClientRequest |-> [CODE |-> 257], ClientEvent |-> [CODE |-> 16484],
     ClientFailure |-> [CODE |-> 20]]

\* self.CODE, self.FLAGS: the attribute of the nearest class that assigns it
RECURSIVE Attr(_, _)
Attr(k, a) ==
    IF a \in DOMAIN ClassDict[k] THEN ClassDict[k][a] ELSE Attr(Bases[k], a)

\* the classes whose instances callers pass to writeContent
ContentClasses == {"ClientRequest", "ClientEvent", "Success", "ClientFailure"}

\* a content of class k built by caller c: what content.code() and
\* content.flags() return, and the bytes its packTo appends to the buffer
ContentOf(k, c) == [CODE |-> Attr(k, "CODE"), FLAGS |-> Attr(k, "FLAGS"), payload |-> <<c>>]

\* the Request a caller sends
CallerContent(c) == ContentOf("ClientRequest", c)

(* ------------------------------- state -------------------------------- *)

\* no header is being packed and read back
RtIdle == [stage |-> "idle", fields |-> <<>>, bytes |-> <<>>, out |-> <<>>]

\* the Process objects of one program, and a Process after __init__
Instances == 1..NumInstances
NewProcess == [nextId |-> INITIAL_ID, ident |-> 0, at |-> "idle", issued |-> <<>>]

VARIABLES
    initialized,    \* Process.initialized
    nextId,         \* Process.nextId
    xmitbuf,        \* bytes packed into Process.xmitbuf since preparePack
    xmitcfg,        \* widths Process.xmitbuf is configured with (<<>>: default)
    recvcfg,        \* widths Process.recvbuf is configured with
    xmitConfigs,    \* number of xmitbuf.config calls
    recvConfigs,    \* number of recvbuf.config calls
    threadStarted,  \* Thread.start(self) has been called
    runDone,        \* run() has returned
    readerReads,    \* packets the Process thread has read in run()
    wire,           \* the calls of write, in order
    spc,            \* where the thread inside start() is
    echo,           \* readHandshake: data
    head,           \* readIdSzRes: head
    body,           \* readIdSzRes: the bytes self.read(20) returned
    startExc,       \* what the last start() call raised
    startCalls,     \* number of start() calls made
    reads,          \* lengths of what self.read returned in the last start()
    pc,             \* where each caller is inside writeContent
    code, flags, data, size,  \* writeContent locals
    ident, tmp,     \* writeHeader: ident; the value loaded by nextId += 2
    earlySend,      \* some writeContent call began before initialized was set
    sends,          \* number of writeContent calls made
    content,        \* writeContent: the class of the content argument
    sendExc,        \* what each caller's last writeContent call raised
    inbound,        \* packets the peer has sent that nobody has read yet
    closed,         \* the owner has closed the transport
    rt,             \* a header packed as writeHeader does, read back by readHeader
    inst            \* nextId and the ids issued, for several Process instances

procVars == <<initialized, nextId, xmitbuf, xmitcfg, recvcfg, xmitConfigs,
              recvConfigs, threadStarted, runDone, readerReads>>
startVars == <<spc, echo, head, body, startExc, startCalls, reads>>
callVars == <<pc, code, flags, data, size, ident, tmp, earlySend, sends,
              content, sendExc>>
extVars == <<inbound, closed, rt, inst>>
vars == <<procVars, wire, startVars, callVars, extVars>>

\* Process.__init__ and threads that have not called anything yet
Init ==
    /\ initialized = FALSE
    /\ nextId = INITIAL_ID
    /\ xmitbuf = <<>>
    /\ xmitcfg = <<>>
    /\ recvcfg = <<>>
    /\ xmitConfigs = 0
    /\ recvConfigs = 0
    /\ threadStarted = FALSE
    /\ runDone = FALSE
    /\ readerReads = <<>>
    /\ wire = <<>>
    /\ spc = "idle"
    /\ echo = <<>>
    /\ head = <<>>
    /\ body = <<>>
    /\ startExc = NoExc
    /\ startCalls = 0
    /\ reads = <<>>
    /\ pc = [c \in Callers |-> "idle"]
    /\ code = [c \in Callers |-> 0]
    /\ flags = [c \in Callers |-> 0]
    /\ data = [c \in Callers |-> <<>>]
    /\ size = [c \in Callers |-> 0]
    /\ ident = [c \in Callers |-> 0]
    /\ tmp = [c \in Callers |-> 0]
    /\ earlySend = FALSE
    /\ sends = 0
    /\ content = [c \in Callers |-> ""]
    /\ sendExc = [c \in Callers |-> NoExc]
    /\ inbound = <<>>
    /\ closed = FALSE
    /\ rt = RtIdle
    /\ inst = [p \in Instances |-> NewProcess]

\* self.write(bytes) by thread `by`; `part` names which call site wrote it
Write(by, part, bytes) == wire' = Append(wire, [by |-> by, part |-> part, data |-> bytes])


(* ------------------------------ start() ------------------------------- *)

\* start() without the test of initialized: every call runs the handshake
StartCall_NoGuard ==
    /\ spc = "idle"
    /\ startCalls < MaxStarts
    /\ startCalls' = startCalls + 1
    /\ startExc' = NoExc
    /\ Write("start", "handshake", HANDSHAKE_MSG)
    /\ spc' = "hsWritten"
    /\ UNCHANGED extVars
    /\ UNCHANGED <<echo, head, body>>
    /\ UNCHANGED <<procVars, callVars>>
    /\ reads' = <<>>

\* start(): the call, the test of initialized, and writeHandshake
StartCall ==
    /\ spc = "idle"
    /\ startCalls < MaxStarts
    /\ startCalls' = startCalls + 1
    /\ startExc' = NoExc
    /\ IF initialized
       THEN UNCHANGED <<wire, spc>>
       ELSE /\ Write("start", "handshake", HANDSHAKE_MSG)
            /\ spc' = "hsWritten"
    /\ UNCHANGED extVars
    /\ UNCHANGED <<echo, head, body>>
    /\ UNCHANGED <<procVars, callVars>>
    /\ reads' = IF initialized THEN reads ELSE <<>>

\* readHandshake: data = self.read(len(HANDSHAKE_MSG)) returns
ReadHandshake ==
    /\ spc = "hsWritten"
    /\ \E e \in HandshakeEchoes : echo' = e
    /\ reads' = Append(reads, Len(echo'))
    /\ spc' = "hsGot"
    /\ UNCHANGED extVars
    /\ UNCHANGED <<procVars, wire, head, body, startExc, startCalls, callVars>>

\* readHandshake: if data != HANDSHAKE_MSG: raise HandshakeError()
CheckHandshake ==
    /\ spc = "hsGot"
    /\ IF echo # HANDSHAKE_MSG
       THEN startExc' = HandshakeError /\ spc' = "idle"
       ELSE startExc' = startExc /\ spc' = "hsRead"
    /\ echo' = <<>>
    /\ UNCHANGED extVars
    /\ UNCHANGED <<procVars, wire, head, body, startCalls, reads, callVars>>

\* writeIdSzReq called before readHandshake: the request is written as soon
\* as the token is, and the echo is never read
WriteIdSzReq_BeforeEcho ==
    /\ spc = "hsWritten"
    /\ Write("start", "idszreq", IDSZ_REQ)
    /\ spc' = "reqWritten"
    /\ UNCHANGED extVars
    /\ UNCHANGED <<procVars, echo, head, body, startExc, startCalls, reads, callVars>>

\* writeIdSzReq taking the id of its request from the counter
WriteIdSzReq_UsesCounter ==
    /\ spc = "hsRead"
    /\ Write("start", "idszreq", IDSZ_REQ)
    /\ nextId' = nextId + ID_STEP
    /\ spc' = "reqWritten"
    /\ UNCHANGED extVars
    /\ UNCHANGED <<initialized, xmitbuf, xmitcfg, recvcfg, xmitConfigs,
                   recvConfigs, threadStarted, runDone, readerReads, echo,
                   head, body, startExc, startCalls, reads, callVars>>

\* writeIdSzReq
WriteIdSzReq ==
    /\ spc = "hsRead"
    /\ Write("start", "idszreq", IDSZ_REQ)
    /\ spc' = "reqWritten"
    /\ UNCHANGED extVars
    /\ UNCHANGED <<procVars, echo, head, body, startExc, startCalls, reads, callVars>>

\* readIdSzRes: head = self.readHeader() returns
ReadIdSzResHeader ==
    /\ spc = "reqWritten"
    /\ \E h \in BootstrapHeaders :
        /\ head' = readHeader(h)
        /\ reads' = Append(reads, Len(h))
    /\ spc' = "headGot"
    /\ UNCHANGED extVars
    /\ UNCHANGED <<procVars, wire, echo, body, startExc, startCalls, callVars>>

\* the tests of readIdSzRes with the flags tested for the bit 0x80 only
IdSzResCheck_FlagBit(hd) ==
    IF hd[1] # IDSZ_BODY_SIZE
    THEN ProtocolError("expected size of an idsize response")
    ELSE IF (hd[3] \div REPLY_FLAG) % 2 # 1
    THEN ProtocolError("expected first server message to be a response")
    ELSE IF hd[2] # BOOTSTRAP_ID
    THEN ProtocolError("expected first server message to be 1")
    ELSE NoExc

\* the tests of readIdSzRes with the id tested before the flags
IdSzResCheck_IdFirst(hd) ==
    IF hd[1] # IDSZ_BODY_SIZE
    THEN ProtocolError("expected size of an idsize response")
    ELSE IF hd[2] # BOOTSTRAP_ID
    THEN ProtocolError("expected first server message to be 1")
    ELSE IF hd[3] # REPLY_FLAG
    THEN ProtocolError("expected first server message to be a response")
    ELSE NoExc

\* the three tests readIdSzRes makes on the header, in the order it makes them
IdSzResCheck(hd) ==
    IF hd[1] # IDSZ_BODY_SIZE
    THEN ProtocolError("expected size of an idsize response")
    ELSE IF hd[3] # REPLY_FLAG
    THEN ProtocolError("expected first server message to be a response")
    ELSE IF hd[2] # BOOTSTRAP_ID
    THEN ProtocolError("expected first server message to be 1")
    ELSE NoExc

\* readIdSzRes: the tests on head, raising ProtocolError
CheckIdSzResHeader ==
    /\ spc = "headGot"
    /\ startExc' = IdSzResCheck(head)
    /\ spc' = IF startExc' = NoExc THEN "headOk" ELSE "idle"
    /\ head' = <<>>
    /\ UNCHANGED extVars
    /\ UNCHANGED <<procVars, wire, echo, body, startCalls, reads, callVars>>

\* readIdSzRes: self.read(20) returns
ReadIdSzResBody ==
    /\ spc = "headOk"
    /\ \E b \in BootstrapBodies : body' = b
    /\ reads' = Append(reads, Len(body'))
    /\ spc' = "bodyGot"
    /\ UNCHANGED extVars
    /\ UNCHANGED <<procVars, wire, echo, head, startExc, startCalls, callVars>>

\* readIdSzRes: sizes = recvbuf.unpack('iiiii', ...), config of both buffers
ConfigSizes ==
    /\ spc = "bodyGot"
    /\ recvcfg' = UnpackSizes(body)
    /\ xmitcfg' = UnpackSizes(body)
    /\ recvConfigs' = recvConfigs + 1
    /\ xmitConfigs' = xmitConfigs + 1
    /\ body' = <<>>
    /\ spc' = "resRead"
    /\ UNCHANGED extVars
    /\ UNCHANGED <<initialized, nextId, xmitbuf, threadStarted, runDone,
                   readerReads, wire, echo, head, startExc, startCalls, reads, callVars>>

\* start(): initialized = True, Thread.start(self), return
FinishStart ==
    /\ spc = "resRead"
    /\ initialized' = TRUE
    /\ threadStarted' = TRUE
    /\ spc' = "idle"
    /\ UNCHANGED extVars
    /\ UNCHANGED <<nextId, xmitbuf, xmitcfg, recvcfg, xmitConfigs, recvConfigs,
                   runDone, readerReads, wire, echo, head, body, startExc,
                   startCalls, reads, callVars>>

(* ------------------------------- run() -------------------------------- *)

\* run(): the body of the Process thread is `pass`; it reads nothing and returns
Run ==
    /\ threadStarted
    /\ ~runDone
    /\ runDone' = TRUE
    /\ UNCHANGED extVars
    /\ UNCHANGED <<initialized, nextId, xmitbuf, xmitcfg, recvcfg, xmitConfigs,
                   recvConfigs, threadStarted, readerReads, wire, startVars,
                   callVars>>

(* --------------------------- writeContent() --------------------------- *)

Idle(c) == pc[c] \in {"idle", "returned"}

\* writeContent(content) with a content of class k: code, flags,
\* xmitbuf.preparePack()
BeginSendOf(c, k) ==
    /\ Idle(c)
    /\ sends < MaxSends
    /\ sends' = sends + 1
    /\ content' = [content EXCEPT ![c] = k]
    /\ sendExc' = [sendExc EXCEPT ![c] = NoExc]
    /\ code' = [code EXCEPT ![c] = ContentOf(k, c).CODE]
    /\ flags' = [flags EXCEPT ![c] = ContentOf(k, c).FLAGS]
    /\ xmitbuf' = <<>>
    /\ data' = [data EXCEPT ![c] = <<>>]
    /\ size' = [size EXCEPT ![c] = 0]
    /\ ident' = [ident EXCEPT ![c] = 0]
    /\ tmp' = [tmp EXCEPT ![c] = 0]
    /\ earlySend' = (earlySend \/ ~initialized)
    /\ pc' = [pc EXCEPT ![c] = "pack"]
    /\ UNCHANGED extVars
    /\ UNCHANGED <<initialized, nextId, xmitcfg, recvcfg, xmitConfigs,
                   recvConfigs, threadStarted, runDone, readerReads, wire,
                   startVars>>

\* writeContent called with a Request
BeginSend(c) == BeginSendOf(c, "ClientRequest")

\* writeContent: content.packTo(self.xmitbuf)
PackTo(c) ==
    /\ pc[c] = "pack"
    /\ xmitbuf' = xmitbuf \o ContentOf(content[c], c).payload
    /\ pc' = [pc EXCEPT ![c] = "data"]
    /\ UNCHANGED extVars
    /\ UNCHANGED <<initialized, nextId, xmitcfg, recvcfg, xmitConfigs,
                   recvConfigs, threadStarted, runDone, readerReads, wire,
                   startVars, code, flags, data, size, ident, tmp, earlySend, sends,
                   content, sendExc>>

\* writeContent: data = self.xmitbuf.data(); size = len(data)
TakeData(c) ==
    /\ pc[c] = "data"
    /\ data' = [data EXCEPT ![c] = xmitbuf]
    /\ size' = [size EXCEPT ![c] = Len(xmitbuf)]
    /\ pc' = [pc EXCEPT ![c] = "ident"]
    /\ UNCHANGED extVars
    /\ UNCHANGED <<procVars, wire, startVars, code, flags, ident, tmp, earlySend, sends,
                   content, sendExc>>

\* writeHeader: ident = self.nextId
ReadIdent(c) ==
    /\ pc[c] = "ident"
    /\ ident' = [ident EXCEPT ![c] = nextId]
    /\ pc' = [pc EXCEPT ![c] = "load"]
    /\ UNCHANGED extVars
    /\ UNCHANGED <<procVars, wire, startVars, code, flags, data, size, tmp, earlySend, sends,
                   content, sendExc>>

\* writeHeader: self.nextId += 2, the load of self.nextId
LoadNextId(c) ==
    /\ pc[c] = "load"
    /\ tmp' = [tmp EXCEPT ![c] = nextId]
    /\ pc' = [pc EXCEPT ![c] = "store"]
    /\ UNCHANGED extVars
    /\ UNCHANGED <<procVars, wire, startVars, code, flags, data, size, ident, earlySend, sends,
                   content, sendExc>>

\* writeHeader with self.nextId += 1
StoreNextId_ByOne(c) ==
    /\ pc[c] = "store"
    /\ nextId' = tmp[c] + 1
    /\ pc' = [pc EXCEPT ![c] = "whdr"]
    /\ UNCHANGED extVars
    /\ UNCHANGED <<initialized, xmitbuf, xmitcfg, recvcfg, xmitConfigs,
                   recvConfigs, threadStarted, runDone, readerReads, wire,
                   startVars, code, flags, data, size, ident, tmp, earlySend, sends,
                   content, sendExc>>

\* writeHeader: self.nextId += 2, the store of the sum
StoreNextId(c) ==
    /\ pc[c] = "store"
    /\ nextId' = tmp[c] + ID_STEP
    /\ pc' = [pc EXCEPT ![c] = "whdr"]
    /\ UNCHANGED extVars
    /\ UNCHANGED <<initialized, xmitbuf, xmitcfg, recvcfg, xmitConfigs,
                   recvConfigs, threadStarted, runDone, readerReads, wire,
                   startVars, code, flags, data, size, ident, tmp, earlySend, sends,
                   content, sendExc>>

\* writeHeader: size += 11, pack the header, self.write(data)
WriteHeaderBytes(c) ==
    /\ pc[c] = "whdr"
    /\ IF closed
       THEN /\ sendExc' = [sendExc EXCEPT ![c] = TransportError]
            /\ pc' = [pc EXCEPT ![c] = "returned"]
            /\ wire' = wire
       ELSE /\ Write(c, "header",
                     writeHeaderData(size[c], ident[c], flags[c], code[c]))
            /\ pc' = [pc EXCEPT ![c] = "wbody"]
            /\ sendExc' = sendExc
    /\ UNCHANGED extVars
    /\ UNCHANGED <<procVars, startVars, code, flags, data, size, ident, tmp,
                   earlySend, sends, content>>

\* writeContent: return self.write(data)
WriteBody(c) ==
    /\ pc[c] = "wbody"
    /\ IF closed
       THEN /\ sendExc' = [sendExc EXCEPT ![c] = TransportError]
            /\ wire' = wire
       ELSE /\ Write(c, "body", data[c])
            /\ sendExc' = sendExc
    /\ pc' = [pc EXCEPT ![c] = "returned"]
    /\ UNCHANGED extVars
    /\ UNCHANGED <<procVars, startVars, code, flags, data, size, ident, tmp,
                   earlySend, sends, content>>

AllIdle == \A d \in Callers : Idle(d)

\* a writeContent call issued when no other call on the Process is in progress
SeqBeginSend(c) ==
    /\ AllIdle
    /\ spc = "idle"
    /\ BeginSend(c)

\* a writeContent call with a content of class k, issued when no other
\* call on the Process is in progress
SeqBeginSendOf(c, k) ==
    /\ AllIdle
    /\ spc = "idle"
    /\ BeginSendOf(c, k)

\* a start() call issued when no other call on the Process is in progress
SeqStartCall ==
    /\ AllIdle
    /\ StartCall

(* --------------------------- specifications --------------------------- *)

\* the steps of start() after the call
StartBody ==
    \/ ReadHandshake
    \/ CheckHandshake
    \/ WriteIdSzReq
    \/ ReadIdSzResHeader
    \/ CheckIdSzResHeader
    \/ ReadIdSzResBody
    \/ ConfigSizes
    \/ FinishStart

\* the steps of writeContent() after the call
SendStep(c) ==
    \/ PackTo(c)
    \/ TakeData(c)
    \/ ReadIdent(c)
    \/ LoadNextId(c)
    \/ StoreNextId(c)
    \/ WriteHeaderBytes(c)
    \/ WriteBody(c)

Next ==
    \/ StartCall
    \/ StartBody
    \/ Run
    \/ \E c \in Callers : BeginSend(c)
    \/ \E c \in Callers : SendStep(c)

\* start() and writeContent() called from any threads, interleaved freely
Spec == Init /\ [][Next]_vars

SeqNext ==
    \/ SeqStartCall
    \/ StartBody
    \/ Run
    \/ \E c \in Callers : SeqBeginSend(c)
    \/ \E c \in Callers : SendStep(c)

\* start() and writeContent() called one after another, never overlapping;
\* only the Process thread runs beside them
SeqSpec == Init /\ [][SeqNext]_vars

ContentNext ==
    \/ \E c \in Callers : \E k \in ContentClasses : SeqBeginSendOf(c, k)
    \/ \E c \in Callers : SendStep(c)

\* writeContent calls one after another, with requests, events, successes
\* and failures as content; writeContent does not look at initialized, so
\* start() is left out
ContentSpec == Init /\ [][ContentNext]_vars

(* ------------------------ the peer and the owner ---------------------- *)

\* packets the debuggee sends once the sizes are negotiated: two events (the
\* flag bit 0x80 clear) and the reply to the request with id 3
EventA == PackHeader(HEADER_SIZE, 2, 0, 16484)
EventB == PackHeader(HEADER_SIZE, 4, 0, 16484)
ReplyTo3 == PackHeader(HEADER_SIZE, INITIAL_ID, REPLY_FLAG, 0)
PeerPackets == {EventA, EventB, ReplyTo3}

\* the peer writes a packet: it waits on the transport for self.read
PeerSend(p) ==
    /\ initialized
    /\ ~closed
    /\ Len(inbound) + Len(readerReads) < MaxInbound
    /\ inbound' = Append(inbound, p)
    /\ UNCHANGED <<closed, rt, inst>>
    /\ UNCHANGED <<procVars, wire, startVars, callVars>>

\* the owner of the session closes it: Process has no method for that, so
\* the owner closes the transport whose read and write it passed to __init__
CloseTransport ==
    /\ initialized
    /\ spc = "idle"
    /\ ~closed
    /\ closed' = TRUE
    /\ UNCHANGED <<inbound, rt, inst>>
    /\ UNCHANGED <<procVars, wire, startVars, callVars>>

SessionNext ==
    \/ SeqNext
    \/ \E p \in PeerPackets : PeerSend(p)
    \/ CloseTransport

\* a session with its peer and its owner: calls never overlap, the peer sends
\* packets, the owner may close the transport.  A thread that can take a
\* step of start(), of writeContent() or of run() is scheduled in the end
SessionSpec ==
    /\ Init
    /\ [][SessionNext]_vars
    /\ WF_vars(Run)
    /\ WF_vars(StartBody)
    /\ \A c \in Callers : WF_vars(SendStep(c))

(* ------------------------ several Process objects --------------------- *)

\* writeHeader on Process p: ident = self.nextId
InstReadIdent(p) ==
    /\ inst[p].at = "idle"
    /\ Len(inst[p].issued) < MaxInstSends
    /\ inst' = [inst EXCEPT ![p].ident = inst[p].nextId, ![p].at = "bump"]
    /\ UNCHANGED <<inbound, closed, rt>>
    /\ UNCHANGED <<procVars, wire, startVars, callVars>>

\* writeHeader with nextId an attribute of the class, one for all objects
InstBump_Shared(p) ==
    /\ inst[p].at = "bump"
    /\ inst' = [q \in Instances |->
                 [inst[q] EXCEPT !.nextId = inst[p].nextId + ID_STEP,
                                 !.at = IF q = p THEN "write" ELSE @]]
    /\ UNCHANGED <<inbound, closed, rt>>
    /\ UNCHANGED <<procVars, wire, startVars, callVars>>

\* writeHeader on Process p: self.nextId += 2
InstBump(p) ==
    /\ inst[p].at = "bump"
    /\ inst' = [inst EXCEPT ![p].nextId = @ + ID_STEP, ![p].at = "write"]
    /\ UNCHANGED <<inbound, closed, rt>>
    /\ UNCHANGED <<procVars, wire, startVars, callVars>>

\* writeHeader on Process p: the header with ident is written; return ident
InstWrite(p) ==
    /\ inst[p].at = "write"
    /\ inst' = [inst EXCEPT ![p].issued = Append(@, inst[p].ident),
                            ![p].at = "idle"]
    /\ UNCHANGED <<inbound, closed, rt>>
    /\ UNCHANGED <<procVars, wire, startVars, callVars>>

InstNext ==
    \E p \in Instances : InstReadIdent(p) \/ InstBump(p) \/ InstWrite(p)

\* several Process objects, each sending from a thread of its own, the
\* threads interleaved freely
InstSpec == Init /\ [][InstNext]_vars

(* ------------------------ header round trip --------------------------- *)

\* header fields (body length, id, flags, code) that fit the wire layout
\* int32 | int32 | uint8 | uint16 once the 11 bytes of the header are added
RtLengths == {0, 1, 20, 255, 256, 65536, 2147483636}
RtIds == {0, 1, 3, 256, 2147483647}
RtFlags == {0, 1, 128, 255}
RtCodes == {0, 257, 16484, 65535}
RtFields == RtLengths \X RtIds \X RtFlags \X RtCodes

\* a body length, an id, flags and a code to put in a header
RtPick(f) ==
    /\ rt.stage = "idle"
    /\ rt' = [rt EXCEPT !.stage = "picked", !.fields = f]
    /\ UNCHANGED <<inbound, closed, inst>>
    /\ UNCHANGED <<procVars, wire, startVars, callVars>>

\* writeHeader packs them
RtPack ==
    /\ rt.stage = "picked"
    /\ rt' = [rt EXCEPT !.stage = "packed",
                        !.bytes = writeHeaderData(rt.fields[1], rt.fields[2],
                                                  rt.fields[3], rt.fields[4])]
    /\ UNCHANGED <<inbound, closed, inst>>
    /\ UNCHANGED <<procVars, wire, startVars, callVars>>

\* readHeader reads the 11 bytes back
RtUnpack ==
    /\ rt.stage = "packed"
    /\ rt' = [rt EXCEPT !.stage = "unpacked", !.out = readHeader(rt.bytes)]
    /\ UNCHANGED <<inbound, closed, inst>>
    /\ UNCHANGED <<procVars, wire, startVars, callVars>>

RtNext ==
    \/ \E f \in RtFields : RtPick(f)
    \/ RtPack
    \/ RtUnpack

\* one header, packed by writeHeader and read back by readHeader
RtSpec == Init /\ [][RtNext]_vars

(* ------------------------- reading the wire --------------------------- *)

IsHeader(w) == w.part = "header"
IsSendWrite(w) == w.part \in {"header", "body"}
IsStartWrite(w) == w.part \in {"handshake", "idszreq"}

\* the headers writeHeader wrote, the writes of writeContent calls, and the
\* writes of start(), each in wire order
Headers == SelectSeq(wire, IsHeader)
SendWrites == SelectSeq(wire, IsSendWrite)
StartWrites == SelectSeq(wire, IsStartWrite)

\* the id field of a written header, decoded from its bytes
HeaderId(w) == UnpackHeader(w.data)[2]

\* ids 3, 5, ..., 3 + 2(n-1)
ExpectedIds(n) == {INITIAL_ID + ID_STEP * (k - 1) : k \in 1..n}

(* ------------------------------ claims -------------------------------- *)

\* C1: among the writes of concurrent writeContent calls, every header is
\* immediately followed by the body of the same call and every body
\* immediately preceded by its header: requests are never interleaved.
C1_NoInterleaving ==
    \A i \in 1..Len(SendWrites) :
        /\ (IsHeader(SendWrites[i]) /\ i < Len(SendWrites)) =>
              /\ SendWrites[i + 1].part = "body"
              /\ SendWrites[i + 1].by = SendWrites[i].by
        /\ SendWrites[i].part = "body" =>
              /\ i > 1
              /\ IsHeader(SendWrites[i - 1])
              /\ SendWrites[i - 1].by = SendWrites[i].by

\* C2: once N writeContent calls, all issued after negotiation, have returned,
\* the ids in the N headers written are exactly 3, 5, ..., 3 + 2(N-1), under
\* every interleaving of the callers.
C2_ConcurrentIdsExact ==
    (initialized /\ ~earlySend /\ AllIdle) =>
        /\ Len(Headers) = sends
        /\ {HeaderId(Headers[i]) : i \in 1..Len(Headers)} = ExpectedIds(sends)

\* C3: the reader loop keeps running once the Process thread is started, so
\* that a reply the peer sends can be received and matched to its caller.
C3_ReaderKeepsRunning == threadStarted => ~runDone

\* C4: a writeContent call has returned only if the reader thread has
\* received a reply packet (flag 0x80) carrying the id the request was sent
\* with.
C4_BlockedUntilReply ==
    \A c \in Callers :
        pc[c] = "returned" =>
            \E i \in 1..Len(readerReads) :
                /\ readerReads[i].flags = REPLY_FLAG
                /\ readerReads[i].id = ident[c]

\* C5: when readHandshake has read the echo, start() proceeds to negotiation
\* if the echo is the token, and otherwise raises HandshakeError and writes
\* nothing further.
C5_HandshakeVerified ==
    [][(spc = "hsGot" /\ spc' # "hsGot") =>
          IF echo = HANDSHAKE_MSG
          THEN spc' = "hsRead" /\ startExc' = NoExc
          ELSE /\ startExc'.type = "HandshakeError"
               /\ spc' = "idle"
               /\ wire' = wire]_vars

\* C5 is checked against the exception CheckHandshake records.

\* the header readIdSzRes accepts: body length 20, flags byte 0x80, id 1
ValidIdSzHead(hd) == hd[1] = 20 /\ hd[3] = 128 /\ hd[2] = 1

\* the header the spec describes: body length 20, reply bit 0x80 set, id 1
ReplyBitIdSzHead(hd) == hd[1] = 20 /\ (hd[3] \div 128) % 2 = 1 /\ hd[2] = 1

\* C6 (as amended): readIdSzRes accepts a bootstrap reply header exactly when
\* its body length is 20, its flags byte equals 0x80 and its id is 1; every
\* other header makes it raise ProtocolError.
C6_AcceptsExactly ==
    [][(spc = "headGot" /\ spc' # "headGot") =>
          /\ (spc' = "headOk") <=> ValidIdSzHead(head)
          /\ spc' = "headOk" => startExc' = NoExc
          /\ spc' # "headOk" =>
                (spc' = "idle" /\ startExc'.type = "ProtocolError")]_vars

\* C6 (as stated): readIdSzRes accepts a bootstrap reply header exactly when
\* its body length is 20, its reply flag bit 0x80 is set and its id is 1.
C6_AcceptsWhenReplyBitSet ==
    [][(spc = "headGot" /\ spc' # "headGot") =>
          /\ (spc' = "headOk") <=> ReplyBitIdSzHead(head)
          /\ spc' # "headOk" =>
                (spc' = "idle" /\ startExc'.type = "ProtocolError")]_vars

\* a bootstrap reply header has been read, validated and accepted
C6_Accepted == spc = "headOk" /\ startExc = NoExc /\ recvConfigs = 0

\* the five 32-bit big-endian integers of a 20-byte id-size body, in order
ReplyWidths(b) ==
    [k \in 1..5 |-> b[4 * k - 3] * 16777216 + b[4 * k - 2] * 65536
                       + b[4 * k - 1] * 256 + b[4 * k]]

\* C7: readIdSzRes configures recvbuf and xmitbuf with the five widths of the
\* reply body in reply order; once start() has succeeded each buffer has been
\* configured exactly once, and no later start() or writeContent call
\* configures either again or changes the widths.
C7_ConfiguredOnce ==
    [][/\ (spc = "bodyGot" /\ spc' = "resRead") =>
              (recvcfg' = ReplyWidths(body) /\ xmitcfg' = ReplyWidths(body))
       /\ (recvConfigs >= 1 \/ xmitConfigs >= 1) =>
              /\ recvcfg' = recvcfg /\ recvConfigs' = recvConfigs
              /\ xmitcfg' = xmitcfg /\ xmitConfigs' = xmitConfigs
       /\ initialized' =>
              /\ recvConfigs' = 1 /\ xmitConfigs' = 1
              /\ Len(recvcfg') = 5 /\ xmitcfg' = recvcfg']_vars

NumHandshakes == Len(SelectSeq(StartWrites, LAMBDA w : w.part = "handshake"))

\* start() has succeeded on the reply <<8, 4, 4, 2, 256>>, start() has been
\* called again since, and a writeContent issued after negotiation has returned
C7_ConfiguredAndUsed ==
    /\ initialized
    /\ recvcfg = <<8, 4, 4, 2, 256>>
    /\ xmitcfg = <<8, 4, 4, 2, 256>>
    /\ NumHandshakes < startCalls
    /\ spc = "idle"
    /\ ~earlySend /\ AllIdle /\ Len(Headers) >= 1

\* C8: while the last start() call has failed, initialized is False, the
\* reader thread has not been started, and no writeContent issued after the
\* failure has written anything to the transport.
C8_FailedStartLeavesNothingUsable ==
    startExc # NoExc =>
        /\ ~initialized
        /\ ~threadStarted
        /\ \A i \in 1..Len(wire) :
              IsSendWrite(wire[i]) =>
                  \E j \in (i + 1)..Len(wire) : IsStartWrite(wire[j])

LastStartWrite ==
    IF StartWrites = <<>> THEN "none" ELSE StartWrites[Len(StartWrites)].part

\* every bootstrap request start() wrote directly follows, among the writes
\* of start(), a handshake token
C9_WireOrder ==
    \A i \in 1..Len(StartWrites) :
        StartWrites[i].part = "idszreq" =>
            (i > 1 /\ StartWrites[i - 1].part = "handshake")

C10_SequentialIds ==
    /\ \A k \in 1..Len(Headers) : HeaderId(Headers[k]) = 3 + 2 * (k - 1)
    /\ nextId \in {3 + 2 * Len(Headers), 3 + 2 * (Len(Headers) + 1)}
    /\ AllIdle => (Len(Headers) = sends /\ nextId = 3 + 2 * sends)

\* two writeContent calls have returned, one after the other
C10_TwoSent ==
    /\ AllIdle
    /\ Len(Headers) >= 2
    /\ HeaderId(Headers[1]) = 3
    /\ HeaderId(Headers[2]) = 5

(* -------------------------------- C11 --------------------------------- *)

\* C11: once the session is closed, every writeContent call that ends (one
\* that was in progress when it was closed, or one issued afterwards) ends
\* with SessionClosed and without writing anything to the transport.
C11_CloseFailsWithSessionClosed ==
    [][\A c \in Callers :
         (closed /\ pc[c] # "returned" /\ pc'[c] = "returned")
         => (sendExc'[c].type = "SessionClosed" /\ wire' = wire)]_vars

(* -------------------------------- C12 --------------------------------- *)

\* a packet is an event when the bit 0x80 of its flags is clear
IsEventPacket(p) == (UnpackHeader(p)[3] \div REPLY_FLAG) % 2 = 0

\* the events the peer has sent, in wire order, and those the Process thread
\* has taken off the transport to hand on
ArrivedEvents == SelectSeq(readerReads \o inbound, IsEventPacket)
ObservedEvents == SelectSeq(readerReads, IsEventPacket)

\* C12: of the packets the peer sends, events interleaved with replies, the
\* events are observed in their wire arrival order: what has been observed
\* is always the first events that arrived, and the k-th event that arrives
\* is observed in the end.
C12_EventsObservedInOrder ==
    /\ [](ObservedEvents = SubSeq(ArrivedEvents, 1, Len(ObservedEvents)))
    /\ \A k \in 1..MaxInbound :
         [](Len(ArrivedEvents) >= k => <>(Len(ObservedEvents) >= k))

(* -------------------------------- C13 --------------------------------- *)

\* C13: a header packed as writeHeader packs it (length field = body length
\* + 11) and read back as readHeader reads it (11 taken off) gives the
\* original body length, id, flags and code; the packed header is 11 bytes.
C13_HeaderRoundTrip ==
    rt.stage = "unpacked" => (rt.out = rt.fields /\ Len(rt.bytes) = HEADER_SIZE)

\* a header with the largest body length, a reply flag and a two-byte code
\* has made the round trip
C13_RoundTripDone ==
    /\ rt.stage = "unpacked"
    /\ rt.fields = <<2147483636, 2147483647, 128, 16484>>
    /\ rt.out = rt.fields

(* -------------------------------- C14 --------------------------------- *)

\* C14: the writes of writeContent calls come in pairs: an 11-byte header
\* whose length field is 11 plus the length of the serialized body and whose
\* flags and code are the content's, then, by the same call, the serialized
\* body; a call that has returned has made exactly these two writes.
C14_HeaderThenBody ==
    /\ \A i \in 1..Len(SendWrites) :
         LET w == SendWrites[i]
             sent == CallerContent(w.by)
         IN  IF i % 2 = 1
             THEN /\ w.part = "header"
                  /\ Len(w.data) = 11
                  /\ UnpackHeader(w.data)[1] = 11 + Len(sent.payload)
                  /\ UnpackHeader(w.data)[3] = sent.FLAGS
                  /\ UnpackHeader(w.data)[4] = sent.CODE
             ELSE /\ w.part = "body"
                  /\ w.by = SendWrites[i - 1].by
                  /\ w.data = sent.payload
    /\ AllIdle => Len(SendWrites) = 2 * sends

\* two calls have returned, with four writes on the wire
C14_TwoCallsWritten == AllIdle /\ sends = 2 /\ Len(SendWrites) = 4

(* -------------------------------- C15 --------------------------------- *)

\* C15: a step of a send on one Process leaves the nextId of every other
\* Process unchanged, and each Process gives its own requests 3, 5, 7, ...
\* whatever the other Process objects send in between.
C15_CountersIndependent ==
    /\ [][\A p, q \in Instances :
           (p # q /\ inst'[p] # inst[p]) => inst'[q].nextId = inst[q].nextId]_vars
    /\ [](\A p \in Instances :
           /\ inst[p].issued = [k \in 1..Len(inst[p].issued) |-> 3 + 2 * (k - 1)]
           /\ inst[p].at = "idle" => inst[p].nextId = 3 + 2 * Len(inst[p].issued))

\* two Process objects have each issued 3 and 5, a third has issued nothing
C15_TwoInstancesSent ==
    /\ inst[1].issued = <<3, 5>>
    /\ inst[2].issued = <<3, 5>>
    /\ inst[3].issued = <<>> /\ inst[3].nextId = 3

(* -------------------------------- C16 --------------------------------- *)

\* C16: nextId is always odd and at least 3, no header written by
\* writeHeader carries the id 1 of the bootstrap request, and as long as no
\* request has been sent the bootstrap exchange has left nextId at 3.
C16_NextIdOddFrom3 ==
    /\ nextId % 2 = 1
    /\ nextId >= 3
    /\ \A i \in 1..Len(Headers) : HeaderId(Headers[i]) # 1
    /\ sends = 0 => nextId = 3

\* the bootstrap exchange is over, and the first request after it took id 3
C16_BootstrapThenSent ==
    /\ initialized
    /\ ~earlySend
    /\ AllIdle
    /\ sends = 1
    /\ HeaderId(Headers[1]) = 3
    /\ nextId = 5

(* -------------------------------- C17 --------------------------------- *)

\* class k is class b or derives from it
RECURSIVE IsA(_, _)
IsA(k, b) == k # "" /\ (k = b \/ IsA(Bases[k], b))

\* C17: the header a writeContent call writes carries flags 0x00 when the
\* content is a Request (an Event is one) and 0x80 when it is a Response
\* (a Success or a Failure), and code 0x0000 when it is a Success.
C17_FlagsByVariant ==
    [][\A c \in Callers :
         (pc[c] = "whdr" /\ pc'[c] = "wbody")
         => LET h == UnpackHeader(wire'[Len(wire')].data)
                k == content[c]
            IN  /\ Len(wire') = Len(wire) + 1
                /\ IsA(k, "Request") \/ IsA(k, "Response")
                /\ IsA(k, "Request") => h[3] = 0
                /\ IsA(k, "Response") => h[3] = 128
                /\ IsA(k, "Success") => h[4] = 0]_vars

\* an Event and then a Success have been written, with flags 0x00 and 0x80
C17_EventAndSuccessSent ==
    /\ AllIdle
    /\ Len(Headers) = 2
    /\ content[Headers[1].by] = "ClientEvent"
    /\ content[Headers[2].by] = "Success"
    /\ UnpackHeader(Headers[1].data)[3] = 0
    /\ UnpackHeader(Headers[2].data)[3] = 128
    /\ UnpackHeader(Headers[2].data)[4] = 0

(* -------------------------------- C18 --------------------------------- *)

\* C18: once start() has succeeded, a further start() call is a no-op: no
\* step of start() follows the call, so nothing is read or written by
\* start(), the buffers are not configured again and the thread is not
\* started again, and the call itself leaves nextId and the wire unchanged.
C18_StartIdempotent ==
    [][initialized
       => /\ spc' = "idle"
          /\ initialized' /\ threadStarted' = threadStarted
          /\ SelectSeq(wire', IsStartWrite) = SelectSeq(wire, IsStartWrite)
          /\ reads' = reads
          /\ xmitcfg' = xmitcfg /\ recvcfg' = recvcfg
          /\ xmitConfigs' = xmitConfigs /\ recvConfigs' = recvConfigs
          /\ startCalls' # startCalls
             => (nextId' = nextId /\ wire' = wire /\ startExc' = NoExc)]_vars

\* start() succeeded, with its three reads, and a second call has returned
C18_StartedAgain ==
    /\ initialized
    /\ spc = "idle"
    /\ startCalls = 2
    /\ NumHandshakes = 1
    /\ reads = <<14, 11, 20>>
    /\ startExc = NoExc

(* -------------------------------- C19 --------------------------------- *)

\* C19: when readIdSzRes rejects the header it raises ProtocolError naming
\* the first expectation the header violates in the order body length,
\* reply flag, id; by then start() has read the 14 bytes of the handshake
\* and the 11 bytes of the header and nothing of the body, and the widths
\* of both buffers, nextId and initialized are as they were.
C19_RejectionLeavesStateAlone ==
    [][(spc = "headGot" /\ spc' = "idle")
       => /\ startExc'.type = "ProtocolError"
          /\ startExc'.msg =
                IF head[1] # 20 THEN "expected size of an idsize response"
                ELSE IF head[3] # 128
                THEN "expected first server message to be a response"
                ELSE "expected first server message to be 1"
          /\ head[1] # 20 \/ head[3] # 128 \/ head[2] # 1
          /\ reads' = <<14, 11>>
          /\ xmitcfg' = xmitcfg /\ recvcfg' = recvcfg
          /\ xmitConfigs' = xmitConfigs /\ recvConfigs' = recvConfigs
          /\ nextId' = nextId
          /\ initialized' = initialized /\ ~initialized']_vars

\* a header with the right length and flags and the wrong id was rejected
C19_RejectedOnId ==
    /\ spc = "idle"
    /\ startExc = ProtocolError("expected first server message to be 1")
    /\ reads = <<14, 11>>
    /\ ~initialized
    /\ xmitcfg = <<>> /\ recvcfg = <<>>

====
